---- MODULE Spec2Model ----
(***************************************************************************)
(* A model of the catformer platformer demo: the main loop of src/main.py  *)
(* driving Player.update / Bullet.update of src/game/player.py and         *)
(* Platform.update of src/game/world.py.                                   *)
(*                                                                         *)
(* The rigid-body engine (pymunk) is the environment: SPACE.step changes   *)
(* body velocities and fires the contact callbacks, and each_arbiter hands *)
(* Player.update the contacts of the frame.  Vectors are pairs <<x, y>>,   *)
(* y pointing up (gravity is (0, -1000)).                                  *)
(***************************************************************************)
EXTENDS Integers, Sequences, FiniteSets, TLC

VARIABLES
    pc,       \* position in the main loop: "input", "step", "update",
              \* "world", "draw", and "exit" once the loop has ended
    running,  \* the loop variable of `while running`
    turn,     \* index in `players` of the player the update loop is at
    keys,     \* pressed_keys: per player, frames each bound key has been held
    player,   \* per player, the fields of the Player object and of its body
    gate,     \* per player, the last call of the jump-through begin handler
    impact,   \* the projectile hit of the last SPACE.step, if any
    platform, \* the fields of the level's Platform object and of its body
    camera,   \* the players the camera of the TileWorld follows
    order,    \* history: the steps of the loop body done in this frame
    frame,    \* history: per player, what its Player.update of this frame did
    hist      \* history: per player, jump counts across frames

vars == <<pc, running, turn, keys, player, gate, impact, platform, camera,
          order, frame, hist>>

----------------------------------------------------------------------------
(* Program constants.                                                      *)

PLAYER_COLLISION_TYPE == 1
JUMP_THROUGH_COLLISION_TYPE == 2
BULLET_COLLISION_TYPE == 3

max_jumps == 2
speed == 100
jump_speed == 400
max_health == 10
mass == 5
bullet_ttl == 40
bullet_cooldown == 10

(* Bounds of the model.                                                    *)

\* a key is released at the latest after being held MaxHeld frames
MaxHeld == 3
\* where shots are rationed, a player fires at most MaxShots projectiles,
\* or LifeShots where its health varies as well
MaxShots == 2
LifeShots == 1
\* each_arbiter iterates over at most MaxArbiters arbiters
MaxArbiters == 2
\* health is not driven below -MaxOverkill
MaxOverkill == 2
\* Platform.update calls are counted up to MaxUpdates
MaxUpdates == 13
\* a platform has at most MaxWaypoints waypoints
MaxWaypoints == 3

Players == {1, 2}
Other(p) == 3 - p
KeyNames == {"jump", "left", "right", "shoot"}

Min(a, b) == IF a < b THEN a ELSE b
Max(a, b) == IF a > b THEN a ELSE b
Neg(v) == <<0 - v[1], 0 - v[2]>>

----------------------------------------------------------------------------
(* Bullet.                                                                 *)
(* ttl, active: the object's fields; in_space: whether SPACE holds its     *)
(* body and shape.  History fields: age counts the Bullet.update calls on  *)
(* it, late those made after it was destroyed, destroys the Bullet.destroy *)
(* calls, drawn the Bullet.draw calls that rendered it and late_draws      *)
(* those made after it was destroyed; hit says a contact handler destroyed *)
(* it; raised says an exception escaped one of its methods.                *)

NewBullet ==
    [ttl |-> bullet_ttl, active |-> TRUE, in_space |-> TRUE,
     age |-> 0, late |-> 0, destroys |-> 0, drawn |-> 0, late_draws |-> 0,
     hit |-> FALSE, raised |-> FALSE]

\* SPACE.remove raises KeyError for an object the space does not hold; the
\* handler of Bullet.destroy swallows it, leaving `active` as it was.
BulletDestroyUnguarded(b) ==
    IF b.in_space
    THEN [b EXCEPT !.in_space = FALSE, !.active = FALSE,
                   !.destroys = Min(@ + 1, 3)]
    ELSE [b EXCEPT !.raised = TRUE, !.destroys = Min(@ + 1, 3)]

BulletDestroyKeepsActive(b) ==
    IF b.in_space
    THEN [b EXCEPT !.in_space = FALSE, !.destroys = Min(@ + 1, 3)]
    ELSE [b EXCEPT !.destroys = Min(@ + 1, 3)]

BulletDestroy(b) ==
    IF b.in_space
    THEN [b EXCEPT !.in_space = FALSE, !.active = FALSE,
                   !.destroys = Min(@ + 1, 3)]
    ELSE [b EXCEPT !.destroys = Min(@ + 1, 3)]

BulletUpdateOffByOne(b) ==
    LET b1 == [b EXCEPT !.ttl = @ - 1, !.age = @ + 1,
                        !.late = IF b.active THEN @ ELSE @ + 1]
    IN  IF b1.ttl <= 0 THEN BulletDestroy(b1) ELSE b1

\* Bullet.update; its return value is the `active` field of the result.
BulletUpdate(b) ==
    LET b1 == [b EXCEPT !.ttl = @ - 1, !.age = @ + 1,
                        !.late = IF b.active THEN @ ELSE @ + 1]
    IN  IF b1.ttl < 0 THEN BulletDestroy(b1) ELSE b1

BulletDraw(b) ==
    IF ~b.active
    THEN [b EXCEPT !.late_draws = @ + 1]
    ELSE [b EXCEPT !.drawn = @ + 1]

----------------------------------------------------------------------------
(* Player.                                                                 *)

NewPlayer ==
    [remaining_jumps |-> max_jumps, health |-> max_health,
     shot_cooldown |-> 0,
     landed |-> FALSE, landed_hard |-> FALSE,
     ground_velocity |-> <<0, 0>>, ground_slope |-> 0,
     current_facing |-> "right", bullets |-> <<>>,
     velocity |-> <<0, 0>>, surface_velocity |-> <<0, 0>>,
     jump_sounds |-> 0]

\* for b in self.bullets[:]: if not b.update(): self.bullets.remove(b)
Updated(bs) == [i \in 1..Len(bs) |-> BulletUpdate(bs[i])]
IsActive(b) == b.active
AgeBullets(s) == [s EXCEPT !.bullets = SelectSeq(Updated(@), IsActive)]
Removed(s) ==
    {Updated(s.bullets)[i] : i \in {j \in 1..Len(s.bullets) :
                                      ~Updated(s.bullets)[j].active}}

TickCooldown(s) ==
    IF s.shot_cooldown # 0 THEN [s EXCEPT !.shot_cooldown = @ - 1] ELSE s

\* The quotients of calculate_landing are float divisions; the arbiters of
\* the model are chosen so that they are exact.
CalculateLandingAnyShape(s, a) ==
    LET n == Neg(a.normal)
        landing_speed == a.total_impulse[2] \div mass
    IN  IF n[2] > 0
        THEN [s EXCEPT !.ground_velocity = a.body_velocity,
                       !.landed = TRUE,
                       !.landed_hard = landing_speed > 100,
                       !.health = IF landing_speed > 1000 THEN @ - 1 ELSE @,
                       !.ground_slope = n[1] \div n[2]]
        ELSE s

CalculateLandingKeepsHard(s, a) ==
    LET n == Neg(a.normal)
        landing_speed == a.total_impulse[2] \div mass
    IN  IF n[2] > 0 /\ a.collision_type # BULLET_COLLISION_TYPE
        THEN [s EXCEPT !.ground_velocity = a.body_velocity,
                       !.landed = TRUE,
                       !.landed_hard = @ \/ landing_speed > 100,
                       !.health = IF landing_speed > 1000 THEN @ - 1 ELSE @,
                       !.ground_slope = n[1] \div n[2]]
        ELSE s

CalculateLanding(s, a) ==
    LET n == Neg(a.normal)
        landing_speed == a.total_impulse[2] \div mass
    IN  IF n[2] > 0 /\ a.collision_type # BULLET_COLLISION_TYPE
        THEN [s EXCEPT !.ground_velocity = a.body_velocity,
                       !.landed = TRUE,
                       !.landed_hard = landing_speed > 100,
                       !.health = IF landing_speed > 1000 THEN @ - 1 ELSE @,
                       !.ground_slope = n[1] \div n[2]]
        ELSE s

\* self.body.each_arbiter(calculate_landing)
RECURSIVE EachArbiter(_, _)
EachArbiter(s, arbs) ==
    IF arbs = <<>> THEN s
    ELSE EachArbiter(CalculateLanding(s, Head(arbs)), Tail(arbs))

JumpUnbudgeted(s) ==
    [s EXCEPT !.jump_sounds = @ + 1,
              !.velocity[2] = s.ground_velocity[2] + jump_speed,
              !.remaining_jumps = @ - 1]

Jump(s) ==
    IF s.remaining_jumps # 0
    THEN [s EXCEPT !.jump_sounds = @ + 1,
                   !.velocity[2] = s.ground_velocity[2] + jump_speed,
                   !.remaining_jumps = @ - 1]
    ELSE s

LerpSnaps(f1, f2, d) == f2

Lerp(f1, f2, d) == f1 + Min(Max(f2 - f1, 0 - d), d)

MoveLeftWins(s, k) ==
    LET left == k["left"] # 0
        right == k["right"] # 0
        target_vx == IF left THEN 0 - speed ELSE IF right THEN speed ELSE 0
        facing == IF left THEN "left" ELSE IF right THEN "right"
                  ELSE s.current_facing
        vx == IF ~s.landed
              THEN Lerp(s.velocity[1], target_vx + s.ground_velocity[1], 10)
              ELSE s.velocity[1]
    IN  [s EXCEPT !.current_facing = facing,
                  !.surface_velocity = <<target_vx, 0>>,
                  !.velocity = <<vx, Max(s.velocity[2], -300)>>]

Move(s, k) ==
    LET left == k["left"] # 0
        right == k["right"] # 0
        target_vx == IF right THEN speed ELSE IF left THEN 0 - speed ELSE 0
        facing == IF right THEN "right" ELSE IF left THEN "left"
                  ELSE s.current_facing
        vx == IF ~s.landed
              THEN Lerp(s.velocity[1], target_vx + s.ground_velocity[1], 10)
              ELSE s.velocity[1]
    IN  [s EXCEPT !.current_facing = facing,
                  !.surface_velocity = <<target_vx, 0>>,
                  !.velocity = <<vx, Max(s.velocity[2], -300)>>]

ShootHalfCooldown(s) ==
    IF s.shot_cooldown # 0 THEN s
    ELSE [s EXCEPT !.bullets = Append(@, NewBullet),
                   !.shot_cooldown = bullet_cooldown \div 2]

ShootIgnoresCooldown(s) ==
    [s EXCEPT !.bullets = Append(@, NewBullet),
              !.shot_cooldown = bullet_cooldown]

Shoot(s) ==
    IF s.shot_cooldown # 0 THEN s
    ELSE [s EXCEPT !.bullets = Append(@, NewBullet),
                   !.shot_cooldown = bullet_cooldown]

RefillAdds(s) ==
    IF s.landed /\ s.ground_slope < 2
    THEN [s EXCEPT !.remaining_jumps = @ + max_jumps] ELSE s

Refill(s) ==
    IF s.landed /\ s.ground_slope < 2
    THEN [s EXCEPT !.remaining_jumps = max_jumps] ELSE s

JumpKeyLevel(s, k) == IF k["jump"] # 0 THEN Jump(s) ELSE s

JumpKey(s, k) == IF k["jump"] = 1 THEN Jump(s) ELSE s

ShootKey(s, k) == IF k["shoot"] # 0 THEN Shoot(s) ELSE s

AliveStepsJumpsLast(s, k) ==
    IF s.health < 0 THEN s
    ELSE ShootKey(JumpKey(Move(Refill(s), k), k), k)

AliveStepsRefillFirst(s, k) ==
    IF s.health < 0 THEN Refill(s)
    ELSE ShootKey(Move(JumpKey(Refill(s), k), k), k)

AliveStepsUngated(s, k) == ShootKey(Move(JumpKey(Refill(s), k), k), k)

\* Player.update below its health check
AliveSteps(s, k) ==
    IF s.health < 0 THEN s
    ELSE ShootKey(Move(JumpKey(Refill(s), k), k), k)

\* Player.update up to and including each_arbiter
Classified(s, arbs) ==
    EachArbiter([TickCooldown(AgeBullets(s))
                    EXCEPT !.landed = FALSE, !.landed_hard = FALSE,
                           !.jump_sounds = 0], arbs)

UpdateDeadFrozen(s, k, arbs) ==
    IF s.health < 0 THEN s ELSE AliveSteps(Classified(s, arbs), k)

Update(s, k, arbs) == AliveSteps(Classified(s, arbs), k)

----------------------------------------------------------------------------
(* The jump-through begin handler of the collision pair (player,           *)
(* jump-through segment): its result TRUE has the engine process the       *)
(* contact (solid), FALSE has it ignore the contact (pass-through).        *)

jump_through_inverted(velocity) == velocity[2] >= 0

jump_through_collision_handler(velocity) == velocity[2] < 0

NoGate == [called |-> FALSE, vy |-> 0, solid |-> FALSE]

\* the handler as the engine calls it for the player body's velocity
GateCall(velocity) ==
    [called |-> TRUE, vy |-> velocity[2],
     solid |-> jump_through_collision_handler(velocity)]

----------------------------------------------------------------------------
(* Contacts.  An arbiter carries the raw normal of its first contact, the  *)
(* collision type and body velocity of shapes[1] and its total impulse.    *)

Arb(normal, ctype, bvel, impulse_y) ==
    [normal |-> normal, collision_type |-> ctype,
     body_velocity |-> bvel, total_impulse |-> <<0, impulse_y>>]

\* level ground, resting                       (n = (0, 1), speed 0)
ArbFlat == Arb(<<0, -1>>, 0, <<0, 0>>, 0)
\* a moving jump-through platform, hard landing (speed 101)
ArbPlatform ==
    Arb(<<0, -1>>, JUMP_THROUGH_COLLISION_TYPE, <<30, 20>>, 505)
\* level ground at the two thresholds           (speed 100 and 1000)
ArbSoftEdge == Arb(<<0, -1>>, 0, <<0, 0>>, 500)
ArbHardEdge == Arb(<<0, -1>>, 0, <<0, 0>>, 5000)
\* level ground, squishing                      (speed 1001)
ArbSquish == Arb(<<0, -1>>, 0, <<0, 0>>, 5005)
\* a steep face rising to the right             (n = (2, 1), slope 2)
ArbSteep == Arb(<<-2, -1>>, 0, <<0, 0>>, 0)
\* a steep face rising to the left              (n = (-3, 1), slope -3)
ArbBack == Arb(<<3, -1>>, 0, <<0, 0>>, 0)
\* a wall and a ceiling                         (n.y = 0, n.y < 0)
ArbWall == Arb(<<-1, 0>>, 0, <<0, 0>>, 505)
ArbCeiling == Arb(<<0, 1>>, 0, <<0, 0>>, 505)
\* a jump-through platform moving down at 14 units a frame
ArbLift == Arb(<<0, -1>>, JUMP_THROUGH_COLLISION_TYPE, <<0, -840>>, 0)
\* a bullet under the feet
ArbBullet == Arb(<<0, -1>>, BULLET_COLLISION_TYPE, <<500, 0>>, 5005)

SeqsOf(S, L) == UNION {[1..m -> S] : m \in L}

\* the condition of calculate_landing, on the arbiter alone
Qualifies(a) ==
    0 - a.normal[2] > 0 /\ a.collision_type # BULLET_COLLISION_TYPE
LandingSpeed(a) == a.total_impulse[2] \div mass
Squishes(a) == Qualifies(a) /\ LandingSpeed(a) > 1000
Count(arbs, P(_)) == Cardinality({i \in 1..Len(arbs) : P(arbs[i])})

----------------------------------------------------------------------------
(* Platform.  A moving platform owns a body that is not added to SPACE, so *)
(* only Platform.update moves it.  Positions are pairs of integers: the    *)
(* platforms of the model have waypoints, speeds and a frame time for      *)
(* which the quotients and the square root of Platform.update are exact.   *)
(* History fields: updates counts the Platform.update calls, from and      *)
(* aimed are the position and target_index the last call started with;     *)
(* raised says an exception escaped a call.                                *)

\* fps of main(); dt = 1. / fps, so that x / dt is x * fps
fps == 60

NewPlatform(waypoints, platform_speed) ==
    [waypoints |-> waypoints, speed |-> platform_speed, target_index |-> 0,
     position |-> IF waypoints # <<>> THEN waypoints[1] ELSE <<0, 0>>,
     velocity |-> <<0, 0>>,
     updates |-> 0, from |-> <<0, 0>>, aimed |-> 0, raised |-> FALSE]

Sqrt(x) == CHOOSE r \in 0..x : r * r <= x /\ (r + 1) * (r + 1) > x

\* Vec2d.get_distance
GetDistance(a, b) ==
    Sqrt((a[1] - b[1]) * (a[1] - b[1]) + (a[2] - b[2]) * (a[2] - b[2]))

\* Vec2d.interpolate_to(other, t) for t = num / den
InterpolateTo(a, b, num, den) ==
    <<a[1] + ((b[1] - a[1]) * num) \div den,
      a[2] + ((b[2] - a[2]) * num) \div den>>

PlatformUpdateAimsVelocity(pl) ==
    IF pl.waypoints = <<>> THEN pl
    ELSE
      LET destination == pl.waypoints[pl.target_index + 1]
          current_pos == pl.position
          distance == GetDistance(current_pos, destination)
          new_pos == IF distance < pl.speed
                     THEN InterpolateTo(current_pos, destination, 1, 1)
                     ELSE InterpolateTo(current_pos, destination,
                                        pl.speed, distance)
      IN  [pl EXCEPT
             !.target_index = IF distance < pl.speed
                              THEN (@ + 1) % Len(pl.waypoints) ELSE @,
             !.position = new_pos,
             !.velocity = <<(destination[1] - current_pos[1]) * fps,
                            (destination[2] - current_pos[2]) * fps>>,
             !.updates = Min(@ + 1, MaxUpdates),
             !.from = current_pos,
             !.aimed = pl.target_index]

PlatformUpdateStopsAtEnd(pl) ==
    IF pl.waypoints = <<>> THEN pl
    ELSE
      LET destination == pl.waypoints[pl.target_index + 1]
          current_pos == pl.position
          distance == GetDistance(current_pos, destination)
          new_pos == IF distance < pl.speed
                     THEN InterpolateTo(current_pos, destination, 1, 1)
                     ELSE InterpolateTo(current_pos, destination,
                                        pl.speed, distance)
      IN  [pl EXCEPT
             !.target_index = IF distance < pl.speed
                              THEN Min(@ + 1, Len(pl.waypoints) - 1)
                              ELSE @,
             !.position = new_pos,
             !.velocity = <<(new_pos[1] - current_pos[1]) * fps,
                            (new_pos[2] - current_pos[2]) * fps>>,
             !.updates = Min(@ + 1, MaxUpdates),
             !.from = current_pos,
             !.aimed = pl.target_index]

\* without the guard, indexing the empty waypoint list raises IndexError
PlatformUpdateUnguarded(pl) ==
    IF pl.waypoints = <<>> THEN [pl EXCEPT !.raised = TRUE]
    ELSE
      LET destination == pl.waypoints[pl.target_index + 1]
          current_pos == pl.position
          distance == GetDistance(current_pos, destination)
          new_pos == IF distance < pl.speed
                     THEN InterpolateTo(current_pos, destination, 1, 1)
                     ELSE InterpolateTo(current_pos, destination,
                                        pl.speed, distance)
      IN  [pl EXCEPT
             !.target_index = IF distance < pl.speed
                              THEN (@ + 1) % Len(pl.waypoints) ELSE @,
             !.position = new_pos,
             !.velocity = <<(new_pos[1] - current_pos[1]) * fps,
                            (new_pos[2] - current_pos[2]) * fps>>,
             !.updates = Min(@ + 1, MaxUpdates),
             !.from = current_pos,
             !.aimed = pl.target_index]

PlatformUpdate(pl) ==
    IF pl.waypoints = <<>> THEN pl
    ELSE
      LET destination == pl.waypoints[pl.target_index + 1]
          current_pos == pl.position
          distance == GetDistance(current_pos, destination)
          new_pos == IF distance < pl.speed
                     THEN InterpolateTo(current_pos, destination, 1, 1)
                     ELSE InterpolateTo(current_pos, destination,
                                        pl.speed, distance)
      IN  [pl EXCEPT
             !.target_index = IF distance < pl.speed
                              THEN (@ + 1) % Len(pl.waypoints) ELSE @,
             !.position = new_pos,
             !.velocity = <<(new_pos[1] - current_pos[1]) * fps,
                            (new_pos[2] - current_pos[2]) * fps>>,
             !.updates = Min(@ + 1, MaxUpdates),
             !.from = current_pos,
             !.aimed = pl.target_index]

----------------------------------------------------------------------------
(* The camera of the TileWorld.  The positions of the players' bodies are  *)
(* the engine's, so the camera is kept as the list of players it computes  *)
(* its target from and whether the update moved it toward that target.     *)

NoCamera == [living_players |-> {}, moved |-> FALSE]

\* living_players = [p for p in players if p.health > 0]
LivingPlayers(ps) == {p \in Players : ps[p].health > 0}

CameraUpdate(ps) ==
    [living_players |-> LivingPlayers(ps),
     moved |-> LivingPlayers(ps) # {}]

----------------------------------------------------------------------------
(* The main loop.                                                          *)

NoImpact == [on |-> FALSE, owner |-> 0, index |-> 0, health_before |-> 0]

NoFrame ==
    [done |-> FALSE, pre |-> NewPlayer, post |-> NewPlayer, arbs |-> <<>>,
     air |-> 0, hold |-> 0, removed |-> {}]

\* main() up to the loop; P: the platforms the level file may describe
Boot(P) ==
    /\ pc = "input"
    /\ running = TRUE
    /\ platform \in P
    /\ camera = NoCamera
    /\ order = <<>>
    /\ turn = 1
    /\ keys = [p \in Players |-> [k \in KeyNames |-> 0]]
    /\ player = [p \in Players |-> NewPlayer]
    /\ gate = [p \in Players |-> NoGate]
    /\ frame = [p \in Players |-> NoFrame]
    /\ impact = NoImpact
    /\ hist = [p \in Players |->
                 [hold_jumps |-> 0, air_jumps |-> 0, shots |-> 0]]

\* a level whose platforms are all static
Init == Boot({NewPlatform(<<>>, 1)})

\* pygame.key.get_pressed and the two loops over pressed_keys: a pressed
\* key's counter goes up by one, a released key's entry is deleted.
\* Before them, the event loop: a window-close or escape event clears
\* `running`, which the `while` reads when the loop body has ended.
\* C: the sets of <<player, key>> pairs that may be down together;
\* ration: the number of projectiles after which a player keeps off its
\* shoot key (-1: never); Q: whether a quit event may be (TRUE) or may
\* not be (FALSE) among the events.
ReadInputBreaks(C, ration, Q) ==
    /\ pc = "input"
    /\ \E quit \in Q : running' = IF quit THEN FALSE ELSE running
    /\ \E pressed \in C :
          /\ \A pk \in pressed : keys[pk[1]][pk[2]] < MaxHeld
          /\ \A pk \in pressed :
                (ration >= 0 /\ pk[2] = "shoot")
                    => hist[pk[1]].shots < ration
          /\ keys' = [p \in Players |-> [k \in KeyNames |->
                        IF <<p, k>> \in pressed THEN keys[p][k] + 1 ELSE 0]]
          /\ hist' = [p \in Players |->
                        IF <<p, "jump">> \in pressed THEN hist[p]
                        ELSE [hist[p] EXCEPT !.hold_jumps = 0]]
    /\ frame' = [p \in Players |-> NoFrame]
    /\ order' = <<>>
    /\ pc' = IF running' THEN "step" ELSE "exit"
    /\ UNCHANGED <<turn, player, gate, impact, platform, camera>>

ReadInput(C, ration, Q) ==
    /\ pc = "input"
    /\ \E quit \in Q : running' = IF quit THEN FALSE ELSE running
    /\ \E pressed \in C :
          /\ \A pk \in pressed : keys[pk[1]][pk[2]] < MaxHeld
          /\ \A pk \in pressed :
                (ration >= 0 /\ pk[2] = "shoot")
                    => hist[pk[1]].shots < ration
          /\ keys' = [p \in Players |-> [k \in KeyNames |->
                        IF <<p, k>> \in pressed THEN keys[p][k] + 1 ELSE 0]]
          /\ hist' = [p \in Players |->
                        IF <<p, "jump">> \in pressed THEN hist[p]
                        ELSE [hist[p] EXCEPT !.hold_jumps = 0]]
    /\ frame' = [p \in Players |-> NoFrame]
    /\ order' = <<>>
    /\ pc' = "step"
    /\ UNCHANGED <<turn, player, gate, impact, platform, camera>>

\* The projectile/player contact handler: the hit player loses one health
\* and the projectile is destroyed.
BulletHit(ps, o, i) ==
    [ps EXCEPT ![Other(o)].health = @ - 1,
               ![o].bullets[i] = [BulletDestroy(@) EXCEPT !.hit = TRUE]]

CanHit(H) ==
    {<<o, i>> \in H \X (1..5) :
        /\ i <= Len(player[o].bullets)
        /\ player[o].bullets[i].in_space
        /\ player[Other(o)].health > 0 - MaxOverkill}

\* SPACE.step(dt): the engine calls the begin handlers of the contacts that
\* start (with the velocities the bodies enter the step with), then moves
\* the bodies.  V[p]: the velocities the step may leave player p with;
\* G: the players that may start touching a jump-through segment;
\* H: the players whose projectiles may hit the other player.
SpaceStep(V, G, H) ==
    /\ pc = "step"
    /\ \E g \in SUBSET G, v \in [Players -> UNION {V[p] : p \in Players}],
          h \in {<<0, 0>>} \cup CanHit(H) :
          /\ \A p \in Players : v[p] \in V[p]
          /\ gate' = [p \in Players |->
                        IF p \in g THEN GateCall(player[p].velocity)
                        ELSE NoGate]
          /\ impact' = IF h = <<0, 0>> THEN NoImpact
                       ELSE [on |-> TRUE, owner |-> h[1], index |-> h[2],
                             health_before |-> player[Other(h[1])].health]
          /\ LET ps == IF h = <<0, 0>> THEN player
                       ELSE BulletHit(player, h[1], h[2])
             IN  player' = [p \in Players |->
                              [ps[p] EXCEPT !.velocity = v[p]]]
    /\ order' = Append(order, "step")
    /\ pc' = "update"
    /\ turn' = 1
    /\ UNCHANGED <<running, keys, platform, camera, frame, hist>>

\* for player in players: player.update(pressed_keys), one player a step.
\* A[p]: the arbiters each_arbiter may hand player p; L: how many at once.
PlayerUpdate(A, L) ==
    /\ pc = "update"
    /\ \E arbs \in SeqsOf(A[turn], L) :
          LET p == turn
              post == Update(player[p], keys[p], arbs)
          IN  /\ post.health >= 0 - MaxOverkill
              /\ player' = [player EXCEPT ![p] = post]
              /\ frame' = [frame EXCEPT ![p] =
                    [done |-> TRUE, pre |-> player[p], post |-> post,
                     arbs |-> arbs, air |-> hist[p].air_jumps,
                     hold |-> hist[p].hold_jumps,
                     removed |-> Removed(player[p])]]
              /\ hist' = [hist EXCEPT ![p] =
                    [shots |-> IF Len(post.bullets)
                                     > Len(AgeBullets(player[p]).bullets)
                               THEN Min(@.shots + 1, MaxShots) ELSE @.shots,
                     hold_jumps |-> Min(@.hold_jumps + post.jump_sounds, 3),
                     air_jumps |->
                        IF Count(arbs, Qualifies) > 0 THEN post.jump_sounds
                        ELSE Min(@.air_jumps + post.jump_sounds, 3)]]
    /\ IF turn < Cardinality(Players)
       THEN turn' = turn + 1 /\ pc' = pc
       ELSE turn' = 1 /\ pc' = "world"
    /\ order' = Append(order, "update")
    /\ UNCHANGED <<running, keys, gate, impact, platform, camera>>

\* world.update(dt, players): every platform of the level is updated, then
\* the camera is moved toward the mean position of the living players, or
\* left alone when there is none
WorldUpdate ==
    /\ pc = "world"
    /\ platform' = PlatformUpdate(platform)
    /\ camera' = CameraUpdate(player)
    /\ order' = Append(order, "world")
    /\ pc' = "draw"
    /\ UNCHANGED <<running, turn, keys, player, gate, impact, frame, hist>>

\* for player in players: player.draw(...), which draws its bullets; the
\* loop body ends here and `while running` is evaluated
Draw ==
    /\ pc = "draw"
    /\ player' = [p \in Players |->
          [player[p] EXCEPT !.bullets =
              [i \in 1..Len(@) |-> BulletDraw(@[i])]]]
    /\ order' = Append(order, "draw")
    /\ pc' = IF running THEN "input" ELSE "exit"
    /\ UNCHANGED <<running, turn, keys, gate, impact, platform, camera,
                   frame, hist>>

----------------------------------------------------------------------------
(* Specifications: the loop under different ranges of the inputs.          *)

\* Jumping: player 1 uses its jump key over ground of every slope, and may
\* be squished; player 2 stands by.
JumpKeys == SUBSET {<<1, "jump">>}
JumpVelocities == [p \in Players |->
    IF p = 1 THEN {<<0, 0>>, <<0, -400>>} ELSE {<<0, 0>>}]
JumpArbiters == [p \in Players |->
    IF p = 1 THEN {ArbFlat, ArbPlatform, ArbSteep, ArbBack, ArbWall}
    ELSE {}]

Next ==
    \/ ReadInput(JumpKeys, -1, {FALSE})
    \/ SpaceStep(JumpVelocities, {1}, {})
    \/ PlayerUpdate(JumpArbiters, 0..MaxArbiters)
    \/ WorldUpdate
    \/ Draw

Spec == Init /\ [][Next]_vars

\* Landing: player 1 meets every kind of contact, squishing ones included,
\* with no key down.
LandingKeys == {{}}
LandingVelocities == [p \in Players |->
    IF p = 1 THEN {<<0, 0>>, <<0, -400>>} ELSE {<<0, 0>>}]
LandingArbiters == [p \in Players |->
    IF p = 1
    THEN {ArbFlat, ArbPlatform, ArbSoftEdge, ArbHardEdge, ArbSquish,
          ArbSteep, ArbWall, ArbCeiling, ArbBullet}
    ELSE {}]

NextLanding ==
    \/ ReadInput(LandingKeys, -1, {FALSE})
    \/ SpaceStep(LandingVelocities, {}, {})
    \/ PlayerUpdate(LandingArbiters, 0..MaxArbiters)
    \/ WorldUpdate
    \/ Draw

SpecLanding == Init /\ [][NextLanding]_vars

\* Projectiles: player 1 shoots, rationed, and its projectiles may hit
\* player 2.
BulletKeys == SUBSET {<<1, "shoot">>}
StillVelocities == [p \in Players |-> {<<0, 0>>}]
NoArbiters == [p \in Players |-> {}]

NextBullet ==
    \/ ReadInput(BulletKeys, MaxShots, {FALSE})
    \/ SpaceStep(StillVelocities, {}, {1})
    \/ PlayerUpdate(NoArbiters, 0..MaxArbiters)
    \/ WorldUpdate
    \/ Draw

SpecBullet == Init /\ [][NextBullet]_vars

\* Dying: player 1 jumps, turns and shoots (rationed) while it is squished
\* to death, by MaxArbiters arbiters at a time.
LifeKeys ==
    {{}, {<<1, "shoot">>}, {<<1, "jump">>, <<1, "left">>},
     {<<1, "jump">>, <<1, "left">>, <<1, "shoot">>}}
LifeVelocities == [p \in Players |->
    IF p = 1 THEN {<<0, -400>>} ELSE {<<0, 0>>}]
LifeArbiters == [p \in Players |-> IF p = 1 THEN {ArbSquish} ELSE {}]

NextLife ==
    \/ ReadInput(LifeKeys, LifeShots, {FALSE})
    \/ SpaceStep(LifeVelocities, {}, {})
    \/ PlayerUpdate(LifeArbiters, {0, MaxArbiters})
    \/ WorldUpdate
    \/ Draw

SpecLife == Init /\ [][NextLife]_vars

\* Grounding: player 1 falls and jumps over level, steep, squishing and
\* sinking ground, until it is dead.
GroundKeys == SUBSET {<<1, "jump">>}
GroundVelocities == [p \in Players |->
    IF p = 1 THEN {<<0, -400>>} ELSE {<<0, 0>>}]
GroundArbiters == [p \in Players |->
    IF p = 1 THEN {ArbSteep, ArbBack, ArbSquish, ArbLift} ELSE {}]

NextGround ==
    \/ ReadInput(GroundKeys, -1, {FALSE})
    \/ SpaceStep(GroundVelocities, {}, {})
    \/ PlayerUpdate(GroundArbiters, 0..MaxArbiters)
    \/ WorldUpdate
    \/ Draw

SpecGround == Init /\ [][NextGround]_vars

\* Shooting to the end: player 1 shoots, rationed, while it is squished to
\* death, by MaxArbiters arbiters at a time.
ShootKeys == SUBSET {<<1, "shoot">>}
ShootArbiters == [p \in Players |-> IF p = 1 THEN {ArbSquish} ELSE {}]

NextShoot ==
    \/ ReadInput(ShootKeys, MaxShots, {FALSE})
    \/ SpaceStep(StillVelocities, {}, {})
    \/ PlayerUpdate(ShootArbiters, {0, MaxArbiters})
    \/ WorldUpdate
    \/ Draw

SpecShoot == Init /\ [][NextShoot]_vars

\* Barrage: player 1 shoots as often as it likes; nothing is hit.
NextBarrage ==
    \/ ReadInput(ShootKeys, -1, {FALSE})
    \/ SpaceStep(StillVelocities, {}, {})
    \/ PlayerUpdate(NoArbiters, {0})
    \/ WorldUpdate
    \/ Draw

SpecBarrage == Init /\ [][NextBarrage]_vars

\* Steering: player 1 uses its left and right keys, in the air and on
\* level ground, still or carried by a platform.
MoveKeys == SUBSET {<<1, "left">>, <<1, "right">>}
MoveVelocities == [p \in Players |->
    IF p = 1 THEN {<<0, 0>>, <<95, 0>>} ELSE {<<0, 0>>}]
MoveArbiters == [p \in Players |->
    IF p = 1 THEN {ArbFlat, ArbPlatform} ELSE {}]

NextMove ==
    \/ ReadInput(MoveKeys, -1, {FALSE})
    \/ SpaceStep(MoveVelocities, {}, {})
    \/ PlayerUpdate(MoveArbiters, {0, 1})
    \/ WorldUpdate
    \/ Draw

SpecMove == Init /\ [][NextMove]_vars

\* Platforms: a level with one moving platform, the players idle, and the
\* window closed at some frame or never.
NoKeys == {{}}
TrackLong == <<<<0, 0>>, <<100, 0>>>>
TrackSkew == <<<<0, 0>>, <<30, 40>>>>
TrackOdd == <<<<0, 0>>, <<25, 0>>>>
TrackShort == <<<<0, 0>>, <<5, 0>>>>
TrackLoop == <<<<0, 0>>, <<30, 0>>, <<30, 40>>>>
TrackSlow == <<<<0, 0>>, <<0, 3>>>>
MovingPlatforms ==
    {NewPlatform(TrackLong, 10), NewPlatform(TrackSkew, 10),
     NewPlatform(TrackOdd, 10), NewPlatform(TrackShort, 10),
     NewPlatform(TrackLoop, 10), NewPlatform(TrackSlow, 1)}

InitPlatform == Boot(MovingPlatforms)

NextPlatform ==
    \/ ReadInput(NoKeys, -1, BOOLEAN)
    \/ SpaceStep(StillVelocities, {}, {})
    \/ PlayerUpdate(NoArbiters, {0})
    \/ WorldUpdate
    \/ Draw

SpecPlatform == InitPlatform /\ [][NextPlatform]_vars

\* The same with the window never closed; the loop body has no blocking
\* call, so that every step of it is eventually taken.
NextPlatformLive ==
    \/ ReadInput(NoKeys, -1, {FALSE})
    \/ SpaceStep(StillVelocities, {}, {})
    \/ PlayerUpdate(NoArbiters, {0})
    \/ WorldUpdate
    \/ Draw

SpecPlatformLive ==
    InitPlatform /\ [][NextPlatformLive]_vars /\ WF_vars(NextPlatformLive)

----------------------------------------------------------------------------
(* Properties.  frame[p].done says Player.update of player p has run in    *)
(* the current frame; frame[p].pre and .post are the player before and     *)
(* after it, .arbs the arbiters it iterated over.                          *)

Alive(s) == s.health >= 0

\* remaining_jumps after the grounded reset of the update that gave `post`
Budget(f) ==
    IF f.post.landed /\ f.post.ground_slope < 2 THEN max_jumps
    ELSE f.pre.remaining_jumps

\* C1: in every reachable state every player has
\* 0 <= remaining_jumps <= max_jumps.
C1_JumpBudgetInRange ==
    \A p \in Players :
        /\ player[p].remaining_jumps >= 0
        /\ player[p].remaining_jumps <= max_jumps

\* a player has used both jumps in the air and then got them back on ground
C1_Witness ==
    \E p \in Players :
        /\ frame[p].done
        /\ frame[p].pre.remaining_jumps = 0
        /\ frame[p].air = max_jumps
        /\ player[p].remaining_jumps = max_jumps

C3_ExactlyOneJumpPerHold ==
    \A p \in Players :
        (frame[p].done /\ keys[p]["jump"] >= 1 /\ Alive(frame[p].post))
            => hist[p].hold_jumps = 1

\* C3 amended: during a hold of the jump key by a living player a jump is
\* performed only in the first frame (counter 1), and there exactly when
\* remaining_jumps is positive after the grounded reset: then velocity.y is
\* set to ground_velocity.y + jump_speed and remaining_jumps goes down by
\* one; otherwise no jump happens in the whole hold.  So a hold of k frames
\* gives at most one jump, never k.
C3_JumpOnlyOnFirstFrame ==
    \A p \in Players :
        LET f == frame[p] IN
        (f.done /\ keys[p]["jump"] >= 1 /\ Alive(f.post)) =>
            /\ hist[p].hold_jumps <= 1
            /\ keys[p]["jump"] > 1 =>
                  /\ f.post.jump_sounds = 0
                  /\ hist[p].hold_jumps = f.hold
            /\ keys[p]["jump"] = 1 =>
                  /\ f.hold = 0
                  /\ hist[p].hold_jumps = f.post.jump_sounds
                  /\ IF Budget(f) > 0
                     THEN /\ f.post.jump_sounds = 1
                          /\ f.post.remaining_jumps = Budget(f) - 1
                          /\ f.post.velocity[2] =
                                f.post.ground_velocity[2] + jump_speed
                     ELSE /\ f.post.jump_sounds = 0
                          /\ f.post.remaining_jumps = 0

\* the key has been down for three frames and one jump was made
C3_Witness ==
    \E p \in Players :
        /\ frame[p].done
        /\ keys[p]["jump"] = 3
        /\ hist[p].hold_jumps = 1
        /\ Alive(player[p])

\* C4: once a living player has jumped max_jumps times with no qualifying
\* ground contact in between, a just-pressed jump key in a frame without
\* qualifying contact changes neither velocity.y nor remaining_jumps (only
\* the terminal-velocity clamp of move touches velocity.y).
C4_ExhaustedJumpHasNoEffect ==
    \A p \in Players :
        LET f == frame[p] IN
        (/\ f.done
         /\ f.air >= max_jumps
         /\ Count(f.arbs, Qualifies) = 0
         /\ keys[p]["jump"] = 1
         /\ Alive(f.post)) =>
            /\ f.post.jump_sounds = 0
            /\ f.post.remaining_jumps = f.pre.remaining_jumps
            /\ f.post.velocity[2] = Max(f.pre.velocity[2], -300)

\* a third jump is asked for in the air, against a wall, while falling
C4_Witness ==
    \E p \in Players :
        /\ frame[p].done
        /\ frame[p].air = max_jumps
        /\ frame[p].arbs = <<ArbWall>>
        /\ keys[p]["jump"] = 1
        /\ frame[p].pre.velocity[2] < 0

\* C5: in a frame where a landing speed above 1000 is seen on a qualifying
\* contact, Player.update takes exactly one health point, however many
\* arbiters touch the player.
C5_SquishCostsExactlyOne ==
    \A p \in Players :
        (frame[p].done /\ Count(frame[p].arbs, Squishes) > 0)
            => frame[p].post.health = frame[p].pre.health - 1

\* C6: after the classifier has run, landed holds exactly when some arbiter
\* of the frame has an inverted normal with n.y > 0 and a shape that is not
\* a projectile.
C6_LandedIffQualifyingArbiter ==
    \A p \in Players :
        frame[p].done =>
            /\ frame[p].post.landed <=> Count(frame[p].arbs, Qualifies) > 0
            /\ player[p].landed = frame[p].post.landed

\* standing on level ground with a projectile under the feet as well
C6_Witness ==
    \E p \in Players :
        /\ frame[p].done
        /\ frame[p].arbs = <<ArbFlat, ArbBullet>>
        /\ player[p].landed

\* every projectile of a list, and every one removed in this frame
Listed(p) == {player[p].bullets[i] : i \in 1..Len(player[p].bullets)}
Known(p) == Listed(p) \cup frame[p].removed

\* C7: a projectile that meets no contact is active and in the physics
\* world through its first 40 Bullet.update calls (ttl = 40 - calls >= 0);
\* the 41st call takes ttl to -1, destroys it and removes it from its
\* owner's list, so that no later call is made on it.
C7_ExpiresOnUpdate41 ==
    \A p \in Players :
        /\ \A b \in Listed(p) :
              ~b.hit =>
                  /\ b.active /\ b.in_space
                  /\ b.age <= bullet_ttl
                  /\ b.ttl = bullet_ttl - b.age
                  /\ b.late = 0
        /\ \A b \in frame[p].removed :
              ~b.hit =>
                  /\ ~b.active /\ ~b.in_space
                  /\ b.age = bullet_ttl + 1
                  /\ b.ttl = -1
                  /\ b.late = 0
                  /\ b.destroys = 1
                  /\ b \notin Listed(p)

\* a projectile has just expired while another is still flying
C7_Witness ==
    \E p \in Players :
        /\ \E b \in frame[p].removed : ~b.hit
        /\ \E b \in Listed(p) : ~b.hit /\ b.age > 0

\* what a hit does at once: one health point, projectile out of the world
HitTakesOneHealth ==
    (impact.on /\ pc = "update" /\ turn = 1) =>
        LET b == player[impact.owner].bullets[impact.index] IN
        /\ player[Other(impact.owner)].health = impact.health_before - 1
        /\ b.hit /\ ~b.active /\ ~b.in_space

Seen(b) == [ttl |-> b.ttl, active |-> b.active, in_space |-> b.in_space,
            raised |-> b.raised]

\* C9: Bullet.destroy on a projectile already destroyed raises nothing and
\* changes nothing: the projectile stays inactive and out of the world.
C9_DestroyIsIdempotent ==
    \A p \in Players : \A b \in Known(p) :
        /\ ~b.raised
        /\ b.destroys >= 1 => (~b.active /\ ~b.in_space)
        /\ Seen(BulletDestroy(BulletDestroy(b))) = Seen(BulletDestroy(b))
        /\ ~BulletDestroy(BulletDestroy(b)).active

\* a projectile destroyed by a hit on its last frame, and destroyed again
\* by the update that found its ttl negative
C9_Witness ==
    \E p \in Players : \E b \in frame[p].removed :
        b.destroys = 2 /\ b.hit /\ b.ttl < 0

\* what Player.update of a dead player leaves alone, and what it still does
DeadUpdateIsInert ==
    \A p \in Players :
        LET f == frame[p] IN
        (f.done /\ ~Alive(f.post)) =>
            /\ f.post.jump_sounds = 0
            /\ f.post.velocity = f.pre.velocity
            /\ f.post.remaining_jumps = f.pre.remaining_jumps
            /\ f.post.current_facing = f.pre.current_facing
            /\ Len(f.post.bullets) <= Len(f.pre.bullets)
            /\ \A i \in 1..Len(f.post.bullets) : f.post.bullets[i].age >= 1
            /\ f.post.bullets = AgeBullets(f.pre).bullets
            /\ f.post.shot_cooldown = Max(f.pre.shot_cooldown - 1, 0)
            /\ f.post.landed <=> Count(f.arbs, Qualifies) > 0

DeadStaysDead ==
    \A p \in Players : player[p].health < 0 => player'[p].health < 0

\* C10: once health is below 0 it stays below 0, and a Player.update with
\* health below 0 (after classification) makes no jump, changes neither
\* velocity nor remaining_jumps nor facing and spawns nothing, whatever
\* keys are down; projectiles still age, the cooldown still ticks and
\* contacts are still classified.
C10_DeadIsSink == []DeadUpdateIsInert /\ [][DeadStaysDead]_vars

\* a dead player with jump and left just pressed, jumps to spare, facing
\* right, a projectile in flight, the cooldown running, and the ground it
\* was squished on gone
C10_Witness ==
    \E p \in Players :
        LET f == frame[p] IN
        /\ f.done
        /\ f.pre.health < 0
        /\ keys[p]["jump"] = 1 /\ keys[p]["left"] = 1
        /\ f.pre.bullets # <<>>
        /\ f.pre.shot_cooldown > 0
        /\ f.pre.remaining_jumps > 0
        /\ f.pre.current_facing = "right"
        /\ f.pre.landed /\ ~f.post.landed

\* a step that raises remaining_jumps is a Player.update that leaves the
\* player alive, landed and on a slope below 2, with max_jumps less the
\* jump made after the reset in the same call
RefillIsGrounded ==
    \A p \in Players :
        player'[p].remaining_jumps > player[p].remaining_jumps =>
            /\ pc = "update" /\ turn = p
            /\ Alive(player'[p])
            /\ player'[p].landed
            /\ player'[p].ground_slope < 2
            /\ player'[p].remaining_jumps + player'[p].jump_sounds
                  = max_jumps

\* C11: remaining_jumps goes up only in a Player.update of a living player
\* with landed true and ground_slope < 2, where the reset sets it to
\* exactly max_jumps (a jump of the same call then takes one off again);
\* no step goes up for the keys alone.
C11_RefillOnlyWhenGrounded == [][RefillIsGrounded]_vars

\* a player without jumps lands on sinking ground with its jump key just
\* pressed: the budget is refilled and one jump is spent at once
C11_Witness ==
    \E p \in Players :
        LET f == frame[p] IN
        /\ f.done
        /\ f.pre.remaining_jumps = 0
        /\ f.arbs = <<ArbLift>>
        /\ keys[p]["jump"] = 1
        /\ f.post.remaining_jumps = max_jumps - 1

\* C12: a Player.update whose grounding contact has |ground_slope| >= 2,
\* to either side, does not refill remaining_jumps: the count does not go
\* up in that call.
C12_SteepGroundNeverRefills ==
    \A p \in Players :
        LET f == frame[p]
            slope == f.post.ground_slope
        IN  (/\ f.done
             /\ f.post.landed
             /\ (slope >= 2 \/ slope <= -2)) =>
                f.post.remaining_jumps <= f.pre.remaining_jumps

\* C13: the platform with waypoints [(0,0), (100,0)] and speed 10, starting
\* at (0,0), is at (100,0) after exactly 10 Platform.update calls, and the
\* 11th call retargets it to waypoint (0,0).
C13_TenUpdatesReachFarEnd ==
    (platform.waypoints = TrackLong /\ platform.speed = 10) =>
        /\ platform.updates = 10 => platform.position = <<100, 0>>
        /\ platform.updates = 11 =>
              /\ platform.aimed = 1
              /\ platform.target_index = 0

\* the waypoint the last Platform.update call moved toward, and the
\* distance it moved the body by
Aimed == platform.waypoints[platform.aimed + 1]
Moved == GetDistance(platform.from, platform.position)

\* the last call moved the body straight toward its target, not past it
MovedToward ==
    GetDistance(platform.position, Aimed)
        = GetDistance(platform.from, Aimed) - Moved

\* C14: every Platform.update(dt) of a platform with waypoints moves the
\* body toward its current target without overshooting, by at most speed
\* units per second: by a distance of at most speed * dt (dt = 1 / fps).
C14_AtMostSpeedPerSecond ==
    (platform.waypoints # <<>> /\ platform.updates >= 1) =>
        /\ MovedToward
        /\ Moved * fps <= platform.speed

\* C15: after every Platform.update(dt) of a moving platform the body's
\* velocity times dt (dt = 1 / fps) is the displacement the call applied,
\* new position minus old; it is zero when the body was already on its
\* target waypoint.
C15_VelocityIsDisplacementOverDt ==
    (platform.waypoints # <<>> /\ platform.updates >= 1) =>
        /\ \A i \in 1..2 :
              /\ platform.velocity[i] % fps = 0
              /\ platform.velocity[i] \div fps
                    = platform.position[i] - platform.from[i]
        /\ platform.from = Aimed => platform.velocity = <<0, 0>>

\* the platform has run to the far end of its track and spent a call there
C15_Witness ==
    /\ platform.waypoints = TrackSkew
    /\ platform.from = TrackSkew[2]
    /\ platform.aimed = 1
    /\ platform.velocity = <<0, 0>>

TargetInRange ==
    platform.waypoints # <<>> =>
        /\ platform.target_index >= 0
        /\ platform.target_index <= Len(platform.waypoints) - 1

\* target_index changes only in Platform.update, to the next index modulo
\* the number of waypoints, in the call that has the body on the waypoint
\* it was aiming at
TargetAdvances ==
    platform'.target_index # platform.target_index =>
        /\ pc = "world"
        /\ platform'.target_index
              = (platform.target_index + 1) % Len(platform.waypoints)
        /\ platform'.position
              = platform.waypoints[platform.target_index + 1]

OnWaypoint(i) ==
    i <= Len(platform.waypoints) => platform.position = platform.waypoints[i]

\* C16: with two or more distinct waypoints and speed >= 1, as long as
\* Platform.update keeps being called, target_index stays within
\* 0..len(waypoints)-1, goes up by one modulo len(waypoints) each time a
\* waypoint is reached, and the body is on every waypoint again and again,
\* in list order, the first following the last.
C16_CyclesThroughWaypoints ==
    /\ []TargetInRange
    /\ [][TargetAdvances]_vars
    /\ \A i \in 1..MaxWaypoints : []<>OnWaypoint(i)

\* the platform of three waypoints has reached the last one and aims at
\* the first again
C16_Witness ==
    /\ platform.waypoints = TrackLoop
    /\ platform.position = TrackLoop[3]
    /\ platform.aimed = 2
    /\ platform.target_index = 0

\* C17: the grounding snapshot is recomputed in every Player.update: after
\* a call in which no arbiter qualifies as ground, landed and landed_hard
\* are false and ground_velocity and ground_slope hold no value of an
\* earlier frame's contact, only the zero they are constructed with.
C17_SnapshotNotCarriedOver ==
    \A p \in Players :
        LET f == frame[p] IN
        (f.done /\ Count(f.arbs, Qualifies) = 0) =>
            /\ ~f.post.landed
            /\ ~f.post.landed_hard
            /\ f.post.ground_velocity = NewPlayer.ground_velocity
            /\ f.post.ground_slope = NewPlayer.ground_slope

\* the steps of one pass through the loop body, in the order of the text
FrameOrder ==
    <<"step">> \o [i \in 1..Cardinality(Players) |-> "update"]
        \o <<"world", "draw">>

IsPrefix(s, r) ==
    Len(s) <= Len(r) /\ \A i \in 1..Len(s) : s[i] = r[i]

\* C18: in every frame SPACE.step (with its contact callbacks) comes before
\* any Player.update, and every player's Player.update is over before the
\* platforms are updated; a quit event ends the loop only between frames:
\* the frame that read it is run to its end.
C18_FrameOrderAndWholeFrames ==
    /\ IsPrefix(order, FrameOrder)
    /\ \A p \in Players :
          frame[p].done => (order # <<>> /\ order[1] = "step")
    /\ (\E i \in 1..Len(order) : order[i] = "world") =>
          \A p \in Players : frame[p].done
    /\ pc = "exit" => (~running /\ order = FrameOrder)
    /\ (~running /\ pc # "exit") => pc # "input"

\* the window was closed while the platform was under way, and the loop has
\* ended after the whole frame
C18_Witness ==
    /\ pc = "exit"
    /\ platform.updates >= 3
    /\ platform.velocity # <<0, 0>>
    /\ \A p \in Players : frame[p].done

\* the last arbiter of the iteration that qualifies as ground
LastQualifying(arbs) ==
    LET last == CHOOSE i \in 1..Len(arbs) :
                    /\ Qualifies(arbs[i])
                    /\ \A j \in (i + 1)..Len(arbs) : ~Qualifies(arbs[j])
    IN  arbs[last]

\* C19: when one or more arbiters qualify as ground in a frame, the
\* classifier leaves ground_velocity, ground_slope (n.x / n.y) and
\* landed_hard (impulse.y / mass > 100) as given by the last qualifying
\* arbiter of the iteration alone, whatever the earlier ones were.
C19_LastQualifyingArbiterWins ==
    \A p \in Players :
        LET f == frame[p] IN
        (f.done /\ Count(f.arbs, Qualifies) > 0) =>
            LET a == LastQualifying(f.arbs)
                n == Neg(a.normal)
            IN  /\ f.post.ground_velocity = a.body_velocity
                /\ f.post.ground_slope = n[1] \div n[2]
                /\ f.post.landed_hard <=> (LandingSpeed(a) > 100)

\* a hard landing on a moving platform, then a soft contact with a steep
\* face: the snapshot is the steep face's
C19_Witness ==
    \E p \in Players :
        /\ frame[p].done
        /\ frame[p].arbs = <<ArbPlatform, ArbSteep>>
        /\ player[p].ground_velocity = <<0, 0>>
        /\ player[p].ground_slope = 2
        /\ ~player[p].landed_hard

\* C20: at the end of every Player.update of a player that is not dead,
\* body.velocity.y >= -300, also in a call that performed a jump.
C20_TerminalVelocity ==
    \A p \in Players :
        LET f == frame[p] IN
        (f.done /\ Alive(f.post)) =>
            /\ f.post.velocity[2] >= -300
            /\ player[p].velocity = f.post.velocity

\* a jump off a platform sinking at 840: 400 - 840 is below the floor, and
\* the clamp of move, which runs after the jump, lifts it to -300
C20_Witness ==
    \E p \in Players :
        LET f == frame[p] IN
        /\ f.done
        /\ Alive(f.post)
        /\ f.post.jump_sounds = 1
        /\ f.post.ground_velocity[2] + jump_speed < -300
        /\ f.post.velocity[2] = -300

\* target_vx of Player.move for the keys of player p
TargetVx(p) ==
    IF keys[p]["right"] >= 1 THEN speed
    ELSE IF keys[p]["left"] >= 1 THEN 0 - speed ELSE 0

Clamp(x, lo, hi) == IF x < lo THEN lo ELSE IF x > hi THEN hi ELSE x

\* C21: in a frame where a living player is not landed, Player.move sets
\* velocity.x to old_vx + clamp((target_vx + ground_velocity.x) - old_vx,
\* -10, 10): it changes by at most 10 and does not pass the target; in a
\* frame where the player is landed velocity.x is left as it was and only
\* the feet surface velocity is set, to (target_vx, 0).
C21_AirControlIsClampedLerp ==
    \A p \in Players :
        LET f == frame[p]
            old_vx == f.pre.velocity[1]
            new_vx == f.post.velocity[1]
            goal == TargetVx(p) + f.post.ground_velocity[1]
        IN  (f.done /\ Alive(f.post)) =>
                /\ f.post.surface_velocity = <<TargetVx(p), 0>>
                /\ f.post.landed => new_vx = old_vx
                /\ ~f.post.landed =>
                      /\ new_vx = old_vx + Clamp(goal - old_vx, -10, 10)
                      /\ new_vx - old_vx <= 10 /\ old_vx - new_vx <= 10
                      /\ old_vx <= goal => (old_vx <= new_vx /\ new_vx <= goal)
                      /\ old_vx >= goal => (old_vx >= new_vx /\ new_vx >= goal)

\* in the air, 5 short of the target of 100: the step is 5, not 10
C21_Witness ==
    \E p \in Players :
        LET f == frame[p] IN
        /\ f.done
        /\ ~f.post.landed
        /\ keys[p]["right"] >= 1
        /\ f.post.ground_velocity = <<0, 0>>
        /\ f.pre.velocity[1] = 95
        /\ f.post.velocity[1] = 100

\* the update that gave `post` appended a projectile: the one projectile
\* of the list no Bullet.update call has been made on
Spawned(f) ==
    \E i \in 1..Len(f.post.bullets) : f.post.bullets[i].age = 0

\* C22: shot_cooldown stays within 0..10; every Player.update takes one
\* off it while it is positive; a projectile is spawned (appended to the
\* owner's list, the cooldown set to 10) only by an update of a living
\* player with its shoot key held and the cooldown at 0 after that tick,
\* and then it is; so when a projectile is spawned every other one of the
\* list has seen 10 updates or more.
C22_CooldownSpacesShots ==
    \A p \in Players :
        LET f == frame[p]
            ticked == IF f.pre.shot_cooldown > 0
                      THEN f.pre.shot_cooldown - 1 ELSE 0
        IN  /\ player[p].shot_cooldown >= 0
            /\ player[p].shot_cooldown <= bullet_cooldown
            /\ f.done =>
                  /\ Spawned(f) <=> (/\ Alive(f.post)
                                     /\ keys[p]["shoot"] >= 1
                                     /\ ticked = 0)
                  /\ f.post.shot_cooldown =
                        IF Spawned(f) THEN bullet_cooldown ELSE ticked
                  /\ Spawned(f) =>
                        LET n == Len(f.post.bullets) IN
                        /\ f.post.bullets[n].age = 0
                        /\ \A i \in 1..(n - 1) :
                              f.post.bullets[i].age >= bullet_cooldown

\* the second projectile leaves in the update that ticks the cooldown from
\* 1 to 0, ten updates after the first
C22_Witness ==
    \E p \in Players :
        LET f == frame[p] IN
        /\ f.done
        /\ f.pre.shot_cooldown = 1
        /\ Len(f.post.bullets) = 2
        /\ f.post.bullets[1].age = bullet_cooldown
        /\ f.post.bullets[2].age = 0
        /\ f.post.shot_cooldown = bullet_cooldown

\* C23: for a living player, with the left and the right key both held
\* right wins: target_vx is +speed, the feet surface velocity (+speed, 0)
\* and current_facing the right key; with left alone target_vx is -speed
\* (and the facing left); with neither it is 0 and the facing stays.
C23_RightWinsOverLeft ==
    \A p \in Players :
        LET f == frame[p]
            left == keys[p]["left"] >= 1
            right == keys[p]["right"] >= 1
        IN  (f.done /\ Alive(f.post)) =>
                /\ right =>
                      /\ f.post.surface_velocity = <<speed, 0>>
                      /\ f.post.current_facing = "right"
                /\ (left /\ ~right) =>
                      /\ f.post.surface_velocity = <<0 - speed, 0>>
                      /\ f.post.current_facing = "left"
                /\ (~left /\ ~right) =>
                      /\ f.post.surface_velocity = <<0, 0>>
                      /\ f.post.current_facing = f.pre.current_facing

\* a player facing left with both keys down turns right
C23_Witness ==
    \E p \in Players :
        LET f == frame[p] IN
        /\ f.done
        /\ keys[p]["left"] >= 1 /\ keys[p]["right"] >= 1
        /\ f.pre.current_facing = "left"
        /\ f.post.current_facing = "right"
        /\ f.post.surface_velocity = <<speed, 0>>

\* C24: Platform.update of a platform with no waypoints does nothing: no
\* exception escapes it and the body's position and velocity and
\* target_index stay as constructed, whatever the players do.
C24_StaticPlatformUpdateIsNoOp ==
    platform.waypoints = <<>> =>
        /\ ~platform.raised
        /\ platform.position = NewPlatform(<<>>, 1).position
        /\ platform.velocity = <<0, 0>>
        /\ platform.target_index = 0

\* the static platform has been updated in a frame in which a player was
\* on its way up from a jump
C24_Witness ==
    /\ platform.waypoints = <<>>
    /\ pc = "draw"
    /\ order[Len(order)] = "world"
    /\ \E p \in Players : player[p].velocity[2] = jump_speed

\* C25: a player's projectile list never holds more than 5 projectiles
\* (spawns are 10 updates apart or more and a projectile goes with its 41st
\* update at the latest).
C25_AtMostFiveProjectiles ==
    \A p \in Players : Len(player[p].bullets) <= 5

\* five projectiles in flight, ten updates apart, the oldest on its last
\* frame
C25_Witness ==
    \E p \in Players :
        /\ Len(player[p].bullets) = 5
        /\ player[p].bullets[1].age = bullet_ttl
        /\ player[p].bullets[5].age = 0

\* a Player.update that ends with the player dead takes one off the ttl of
\* every projectile of its list, destroys and removes those it takes below
\* zero (and those already inactive) and adds none; a dead player's
\* projectiles have a ttl of 0..40, so that none outlasts 41 such calls
DeadBulletsAge ==
    \A p \in Players :
        LET f == frame[p]
            pre == f.pre.bullets
            post == f.post.bullets
        IN  /\ player[p].health < 0 =>
                  \A b \in Listed(p) : b.ttl >= 0 /\ b.ttl <= bullet_ttl
            /\ (f.done /\ ~Alive(f.post)) =>
                  /\ Len(post) = Cardinality({i \in 1..Len(pre) :
                                    pre[i].active /\ pre[i].ttl >= 1})
                  /\ \A j \in 1..Len(post) : \E i \in 1..Len(pre) :
                        /\ post[j].ttl = pre[i].ttl - 1
                        /\ post[j].age = pre[i].age + 1
                  /\ \A b \in f.removed : ~b.active /\ ~b.in_space

DeadListShrinks ==
    \A p \in Players :
        player[p].health < 0 =>
            /\ Len(player'[p].bullets) <= Len(player[p].bullets)
            /\ player[p].bullets = <<>> => player'[p].bullets = <<>>

\* C26: the projectiles of a dead player keep aging: every one still in its
\* list when its health has gone below 0 is destroyed and removed within
\* 41 further Player.update calls, and the list, once empty, stays empty.
C26_DeadPlayersBulletsExpire == []DeadBulletsAge /\ [][DeadListShrinks]_vars

\* the last projectile of a player that died with two in flight expires
C26_Witness ==
    \E p \in Players :
        LET f == frame[p] IN
        /\ f.done
        /\ f.pre.health < 0
        /\ Len(f.pre.bullets) = 1
        /\ f.pre.bullets[1].destroys = 0
        /\ f.post.bullets = <<>>
        /\ \E b \in f.removed : b.age = bullet_ttl + 1
        /\ hist[p].shots = 2

\* C27: whenever a player is dead (health < 0) the surface velocity of its
\* feet is (0, 0), whatever left or right key it held when it last lived.
C27_DeadFeetAreStill ==
    \A p \in Players :
        player[p].health < 0 => player[p].surface_velocity = <<0, 0>>

\* C28: the players TileWorld.update takes for living, and has the camera
\* follow, are exactly the players that are not dead for Player.update
\* (health < 0): a player that can still move, jump and shoot is followed.
C28_CameraFollowsAllNotDead ==
    pc = "draw" =>
        camera.living_players = {p \in Players : Alive(player[p])}

====
